---- MODULE Spec2Model ----
(***************************************************************************)
(* Model of script/make_icons.py: generate_tauri_icons(source, output_dir) *)
(* turns one source image into 14 PNG files, icon.ico and (for sources of  *)
(* at least 512x512) icon.icns.  The state is the output directory, the    *)
(* position of the running call and what the call has reported so far.     *)
(* A file's content is a record [fmt, dims, src]: its format, the set of   *)
(* pixel sizes <<w, h>> of the rasters it embeds and the source image the  *)
(* rasters were made from.                                                 *)
(***************************************************************************)
EXTENDS Integers, Sequences, FiniteSets, TLC

\* ------------------------------------------------------------------ bounds
\* number of calls of generate_tauri_icons in one behaviour
MaxRuns == 2
\* number of failing file operations (disk full, permission, ...) in one behaviour
MaxFaults == 1

\* ------------------------------------------------------------ source files
NoSrc == [kind |-> "none", w |-> 0, h |-> 0]

\* what source_image_path may name: nothing, a file that is no image, an image
Sources ==
    { [kind |-> "missing", w |-> 0, h |-> 0],
      [kind |-> "garbage", w |-> 0, h |-> 0],
      [kind |-> "image", w |-> 100,  h |-> 100],
      [kind |-> "image", w |-> 512,  h |-> 512],
      [kind |-> "image", w |-> 1024, h |-> 512],
      [kind |-> "image", w |-> 512,  h |-> 256] }

\* os.path.exists(source_image_path)
SourceExists_always(s) == TRUE

SourceExists(s) == s.kind # "missing"

\* Image.open(...).convert("RGBA") succeeds
Decodable_any(s) == s.kind # "missing"

Decodable(s) == s.kind = "image"

NoImg == [w |-> 0, h |-> 0]

\* the image Image.open(source).convert("RGBA") returns: the source's raster
OpenImage(s) == [w |-> s.w, h |-> s.h]

\* --------------------------------------------------------------- the tables
png_files ==
    << [name |-> "32x32.png",      size |-> 32],
       [name |-> "128x128.png",    size |-> 128],
       [name |-> "128x128@2x.png", size |-> 256],
       [name |-> "icon.png",       size |-> 512] >>

windows_tile_files_storefirst ==
    << [name |-> "StoreLogo.png",         size |-> 50],
       [name |-> "Square30x30Logo.png",   size |-> 30],
       [name |-> "Square44x44Logo.png",   size |-> 44],
       [name |-> "Square71x71Logo.png",   size |-> 71],
       [name |-> "Square89x89Logo.png",   size |-> 89],
       [name |-> "Square107x107Logo.png", size |-> 107],
       [name |-> "Square142x142Logo.png", size |-> 142],
       [name |-> "Square150x150Logo.png", size |-> 150],
       [name |-> "Square284x284Logo.png", size |-> 284],
       [name |-> "Square310x310Logo.png", size |-> 310] >>

windows_tile_files ==
    << [name |-> "Square30x30Logo.png",   size |-> 30],
       [name |-> "Square44x44Logo.png",   size |-> 44],
       [name |-> "Square71x71Logo.png",   size |-> 71],
       [name |-> "Square89x89Logo.png",   size |-> 89],
       [name |-> "Square107x107Logo.png", size |-> 107],
       [name |-> "Square142x142Logo.png", size |-> 142],
       [name |-> "Square150x150Logo.png", size |-> 150],
       [name |-> "Square284x284Logo.png", size |-> 284],
       [name |-> "Square310x310Logo.png", size |-> 310],
       [name |-> "StoreLogo.png",         size |-> 50] >>

ico_sizes == << <<16, 16>>, <<32, 32>>, <<48, 48>>, <<64, 64>>, <<128, 128>>, <<256, 256>> >>

IcoName == "icon.ico"
IcnsName == "icon.icns"

\* a file of the output directory the routine does not produce
ForeignName == "notes.txt"

TableNames(t) == { t[i].name : i \in 1..Len(t) }

OutputNames == TableNames(png_files) \cup TableNames(windows_tile_files) \cup {IcoName, IcnsName}

FileNames == OutputNames \cup {ForeignName}

\* ------------------------------------------------------------ file contents
Absent  == [fmt |-> "absent",  dims |-> {}, src |-> NoSrc]
\* a file opened for writing (truncated) and not yet complete
Partial == [fmt |-> "partial", dims |-> {}, src |-> NoSrc]
Foreign == [fmt |-> "foreign", dims |-> {}, src |-> NoSrc]

\* ---------------------------------------------------------- image library
\* img.resize((w, h), LANCZOS): a raster of exactly the requested size
Resize_thumbnail(im, w, h) ==
    IF im.w >= im.h
        THEN [w |-> w, h |-> IF (w * im.h) \div im.w = 0 THEN 1 ELSE (w * im.h) \div im.w]
        ELSE [w |-> IF (h * im.w) \div im.h = 0 THEN 1 ELSE (h * im.w) \div im.h, h |-> h]

Resize(im, w, h) == [w |-> w, h |-> h]

\* resized_img.save(path, "PNG"): one raster of the image's own size
PngFile(im, s) == [fmt |-> "PNG", dims |-> {<<im.w, im.h>>}, src |-> s]

Abs(x) == IF x < 0 THEN -x ELSE x

\* the width of a thumbnail of height y that keeps the aspect ratio w/h:
\* y * w / h rounded down or up, whichever ratio is closer (down on a tie),
\* and never below 1
RoundAspectX(y, w, h) ==
    LET f == (y * w) \div h
        c == IF f * h = y * w THEN f ELSE f + 1
        r == IF Abs(h * f - y * w) <= Abs(h * c - y * w) THEN f ELSE c
    IN  IF r < 1 THEN 1 ELSE r

\* the height of a thumbnail of width x that keeps the aspect ratio w/h
RoundAspectY(x, w, h) ==
    LET f == (x * h) \div w
        c == IF f * w = x * h THEN f ELSE f + 1
        r == IF f = 0 THEN 0
             ELSE IF Abs(w * f - x * h) * c <= Abs(w * c - x * h) * f THEN f ELSE c
    IN  IF r < 1 THEN 1 ELSE r

\* frame.thumbnail((sw, sh)): the largest raster within sw x sh of im's aspect
Thumbnail(im, sw, sh) ==
    IF sw >= im.w /\ sh >= im.h THEN <<im.w, im.h>>
    ELSE IF sw * im.h >= im.w * sh
         THEN << RoundAspectX(sh, im.w, im.h), sh >>
         ELSE << sw, RoundAspectY(sw, im.w, im.h) >>

\* img.save(path, format="ICO", sizes=sizes): the encoder drops every
\* requested size larger than the image (or than 256) and stores, for each
\* size it keeps, a thumbnail of the image
IcoFile(im, sizes, s) ==
    [fmt  |-> "ICO",
     dims |-> { Thumbnail(im, sizes[i][1], sizes[i][2]) :
                  i \in { j \in 1..Len(sizes) :
                            /\ sizes[j][1] <= im.w /\ sizes[j][2] <= im.h
                            /\ sizes[j][1] <= 256  /\ sizes[j][2] <= 256 } },
     src  |-> s]

\* img.save(path, format="ICNS"); the rasters it embeds are not modelled
IcnsFile(im, s) == [fmt |-> "ICNS", dims |-> {}, src |-> s]

\* ------------------------------------------------------------------- state
VARIABLES pc, idx, src, img, dirExists, disk, fp, written, warnings,
          result, runs, faults, dir0, disk0, prev

vars == << pc, idx, src, img, dirExists, disk, fp, written, warnings,
           result, runs, faults, dir0, disk0, prev >>

NoFile == "-"

EmptyDisk == [n \in FileNames |-> Absent]

Init ==
    /\ pc = "idle"
    /\ idx = 0
    /\ src = NoSrc
    /\ img = NoImg
    /\ dirExists \in BOOLEAN
    /\ disk \in { EmptyDisk } \cup
                (IF dirExists THEN { [EmptyDisk EXCEPT ![ForeignName] = Foreign] } ELSE {})
    /\ fp = NoFile
    /\ written = << >>
    /\ warnings = 0
    /\ result = "none"
    /\ runs = 0
    /\ faults = 0
    /\ dir0 = dirExists
    /\ disk0 = disk
    /\ prev = [src |-> NoSrc, result |-> "none", disk |-> disk]

\* generate_tauri_icons(source_image_path, output_dir) is called
Call(s) ==
    /\ pc = "idle"
    /\ runs < MaxRuns
    /\ pc' = "check_source"
    /\ src' = s
    /\ img' = NoImg
    /\ idx' = 0
    /\ written' = << >>
    /\ warnings' = 0
    /\ result' = "none"
    /\ runs' = runs + 1
    /\ dir0' = dirExists
    /\ disk0' = disk
    /\ prev' = [src |-> src, result |-> result, disk |-> disk]
    /\ UNCHANGED << dirExists, disk, fp, faults >>

\* line 10: if not os.path.exists(source_image_path)
CheckSource ==
    /\ pc = "check_source"
    /\ IF SourceExists(src)
          THEN /\ pc' = "make_dir"
               /\ UNCHANGED result
          ELSE /\ pc' = "idle"
               /\ result' = "MissingSource"
    /\ UNCHANGED << idx, src, img, dirExists, disk, fp, written, warnings,
                    runs, faults, dir0, disk0, prev >>

\* line 15: if not os.path.exists(output_dir)
NeedsMakedirs_always(d) == TRUE

NeedsMakedirs(d) == ~d

\* line 16: os.makedirs(output_dir) on a directory that does not exist
MakeDirs_noop(d) == d

MakeDirs(d) == TRUE

\* lines 15-17; os.makedirs raises FileExistsError on an existing directory
MakeDir ==
    /\ pc = "make_dir"
    /\ IF NeedsMakedirs(dirExists)
          THEN IF dirExists
                  THEN /\ pc' = "idle"
                       /\ result' = "FileExists"
                       /\ UNCHANGED dirExists
                  ELSE /\ dirExists' = MakeDirs(dirExists)
                       /\ pc' = "load"
                       /\ UNCHANGED result
          ELSE /\ pc' = "load"
               /\ UNCHANGED << dirExists, result >>
    /\ UNCHANGED << idx, src, img, disk, fp, written, warnings,
                    runs, faults, dir0, disk0, prev >>

\* lines 19-25: open and convert the image, or report and return
Load ==
    /\ pc = "load"
    /\ IF Decodable(src)
          THEN /\ img' = OpenImage(src)
               /\ pc' = "png_files"
               /\ idx' = 1
               /\ UNCHANGED result
          ELSE /\ pc' = "idle"
               /\ result' = "DecodeFailure"
               /\ UNCHANGED << img, idx >>
    /\ UNCHANGED << src, dirExists, disk, fp, written, warnings,
                    runs, faults, dir0, disk0, prev >>

\* line 85: the source is large enough for the macOS container
IcnsEligible_strict(im) == im.w > 512 /\ im.h > 512

IcnsEligible_either(im) == im.w >= 512 \/ im.h >= 512

IcnsEligible_always(im) == TRUE

IcnsEligible(im) == im.w >= 512 /\ im.h >= 512

SaveStages == {"png_files", "windows_tile_files", "ico", "icns"}

\* the file the statement at the current position saves
CurName ==
    CASE pc = "png_files"          -> png_files[idx].name
      [] pc = "windows_tile_files" -> windows_tile_files[idx].name
      [] pc = "ico"                -> IcoName
      [] OTHER                     -> IcnsName

\* and what it saves there (lines 40-42, 64-66, 76, 88)
CurContent ==
    CASE pc = "png_files" ->
             PngFile(Resize(img, png_files[idx].size, png_files[idx].size), src)
      [] pc = "windows_tile_files" ->
             PngFile(Resize(img, windows_tile_files[idx].size, windows_tile_files[idx].size), src)
      [] pc = "ico" -> IcoFile(img, ico_sizes, src)
      [] OTHER      -> IcnsFile(img, src)

\* a save opens its file for writing, which truncates it; without the
\* directory the open raises
SaveOpen ==
    /\ pc \in SaveStages
    /\ fp = NoFile
    /\ pc = "icns" => IcnsEligible(img)
    /\ IF dirExists
          THEN /\ fp' = CurName
               /\ disk' = [disk EXCEPT ![CurName] = Partial]
               /\ UNCHANGED << pc, result >>
          ELSE /\ pc' = "idle"
               /\ result' = "IOError"
               /\ UNCHANGED << fp, disk >>
    /\ UNCHANGED << idx, src, img, dirExists, written, warnings,
                    runs, faults, dir0, disk0, prev >>

\* the save writes the encoded image and closes the file; control moves to
\* the next iteration or the next statement
SaveClose ==
    /\ pc \in SaveStages
    /\ fp # NoFile
    /\ disk' = [disk EXCEPT ![fp] = CurContent]
    /\ written' = Append(written, fp)
    /\ fp' = NoFile
    /\ CASE pc = "png_files" ->
                IF idx < Len(png_files)
                   THEN pc' = pc /\ idx' = idx + 1
                   ELSE pc' = "windows_tile_files" /\ idx' = 1
         [] pc = "windows_tile_files" ->
                IF idx < Len(windows_tile_files)
                   THEN pc' = pc /\ idx' = idx + 1
                   ELSE pc' = "ico" /\ idx' = 0
         [] pc = "ico" -> pc' = "icns" /\ idx' = 0
         [] OTHER      -> pc' = "finish" /\ idx' = 0
    /\ UNCHANGED << src, img, dirExists, warnings, result,
                    runs, faults, dir0, disk0, prev >>

\* lines 90-91: the source is too small, warn and write no icon.icns
SkipIcns ==
    /\ pc = "icns"
    /\ fp = NoFile
    /\ ~IcnsEligible(img)
    /\ warnings' = warnings + 1
    /\ pc' = "finish"
    /\ UNCHANGED << idx, src, img, dirExists, disk, fp, written, result,
                    runs, faults, dir0, disk0, prev >>

\* line 93: the closing message, the call returns normally
Finish ==
    /\ pc = "finish"
    /\ pc' = "idle"
    /\ result' = "ok"
    /\ UNCHANGED << idx, src, img, dirExists, disk, fp, written, warnings,
                    runs, faults, dir0, disk0, prev >>

\* a save fails to open its file: the exception leaves the call (no handler
\* encloses lines 27-93), the file is as it was
FailOpen ==
    /\ pc \in SaveStages
    /\ fp = NoFile
    /\ pc = "icns" => IcnsEligible(img)
    /\ faults < MaxFaults
    /\ faults' = faults + 1
    /\ pc' = "idle"
    /\ result' = "IOError"
    /\ UNCHANGED << idx, src, img, dirExists, disk, fp, written, warnings,
                    runs, dir0, disk0, prev >>

\* a save fails while writing: the exception leaves the call; the file stays
\* truncated, or is removed again when this save had created it
FailWrite ==
    /\ pc \in SaveStages
    /\ fp # NoFile
    /\ faults < MaxFaults
    /\ faults' = faults + 1
    /\ \E c \in {Partial} \cup (IF disk0[fp] = Absent THEN {Absent} ELSE {}) :
          disk' = [disk EXCEPT ![fp] = c]
    /\ fp' = NoFile
    /\ pc' = "idle"
    /\ result' = "IOError"
    /\ UNCHANGED << idx, src, img, dirExists, written, warnings,
                    runs, dir0, disk0, prev >>

Next ==
    \/ \E s \in Sources : Call(s)
    \/ CheckSource
    \/ MakeDir
    \/ Load
    \/ SaveOpen
    \/ SaveClose
    \/ SkipIcns
    \/ Finish
    \/ FailOpen
    \/ FailWrite

Spec == Init /\ [][Next]_vars

\* ============================================================== properties
Range(q) == { q[i] : i \in 1..Len(q) }

RunEnded == pc = "idle" /\ runs > 0

Complete(c) == c.fmt \in {"PNG", "ICO", "ICNS"}

Present == { n \in FileNames : disk[n] # Absent }

Undersized(s) == s.kind = "image" /\ (s.w < 512 \/ s.h < 512)

GenericPngs == {"32x32.png", "128x128.png", "128x128@2x.png", "icon.png"}

TilePngs ==
    {"Square30x30Logo.png", "Square44x44Logo.png", "Square71x71Logo.png",
     "Square89x89Logo.png", "Square107x107Logo.png", "Square142x142Logo.png",
     "Square150x150Logo.png", "Square284x284Logo.png", "Square310x310Logo.png",
     "StoreLogo.png"}

SixteenFiles == GenericPngs \cup TilePngs \cup {"icon.ico", "icon.icns"}

\* C1: a run with a decodable source of at least 512x512 that starts on an
\* empty or absent output directory fails only on a failing file operation,
\* and when it completes the directory holds exactly the 16 enumerated files,
\* each complete.
C1_FullFileSet ==
    (RunEnded /\ src.kind = "image" /\ src.w >= 512 /\ src.h >= 512 /\ disk0 = EmptyDisk)
        => /\ result \in {"ok", "IOError"}
           /\ result = "ok" =>
                 /\ Present = SixteenFiles
                 /\ \A n \in SixteenFiles : Complete(disk[n]) /\ disk[n].src = src

C1_Witness ==
    /\ RunEnded /\ result = "ok"
    /\ src.kind = "image" /\ src.w = 512 /\ src.h = 512
    /\ ~dir0 /\ disk0 = EmptyDisk
    /\ Present = SixteenFiles

\* C2: a run with a decodable source below 512 in width or height fails only
\* on a failing file operation, and when it completes it has written the 14
\* PNG files and icon.ico, has not written icon.icns and has recorded exactly
\* one warning; no run records more than one warning.
C2_UndersizedSkipsIcns ==
    /\ warnings <= 1
    /\ (RunEnded /\ Undersized(src))
          => /\ result \in {"ok", "IOError"}
             /\ result = "ok" =>
                   /\ Range(written) = GenericPngs \cup TilePngs \cup {"icon.ico"}
                   /\ \A n \in Range(written) : Complete(disk[n]) /\ disk[n].src = src
                   /\ disk["icon.icns"] = disk0["icon.icns"]
                   /\ warnings = 1

C2_Witness ==
    /\ RunEnded /\ result = "ok" /\ Undersized(src)
    /\ src.w >= 512
    /\ disk0 = EmptyDisk
    /\ Present = SixteenFiles \ {"icon.icns"}
    /\ warnings = 1

\* C3: a run whose source path does not exist never gets past the source
\* check: it writes no file, creates nothing, and ends reporting MissingSource.
C3_MissingSource ==
    (runs > 0 /\ src.kind = "missing")
        => /\ pc \in {"check_source", "idle"}
           /\ fp = NoFile /\ written = << >>
           /\ disk = disk0 /\ dirExists = dir0
           /\ pc = "idle" => result = "MissingSource"

C3_Witness ==
    /\ RunEnded /\ src.kind = "missing" /\ result = "MissingSource"
    /\ ~dirExists /\ disk = EmptyDisk

\* C4 as stated: a run whose source exists but cannot be decoded ends
\* reporting the failure with the filesystem exactly as before the run, the
\* output directory included.
C4_Original ==
    (RunEnded /\ src.kind = "garbage")
        => /\ result = "DecodeFailure"
           /\ disk = disk0
           /\ dirExists = dir0

\* C4 amended: a run whose source exists but cannot be decoded ends reporting
\* the failure with no file written or changed; the output directory exists
\* afterwards (it has been created, empty, when it was absent).
C4_DecodeFailure ==
    (runs > 0 /\ src.kind = "garbage")
        => /\ pc \in {"check_source", "make_dir", "load", "idle"}
           /\ fp = NoFile /\ written = << >>
           /\ disk = disk0
           /\ pc = "idle" => (result = "DecodeFailure" /\ dirExists)

C4_Witness ==
    /\ RunEnded /\ src.kind = "garbage" /\ result = "DecodeFailure"
    /\ ~dir0 /\ dirExists /\ disk = EmptyDisk

\* the target size the table gives for each PNG filename
TargetSize(n) ==
    CASE n = "32x32.png"             -> 32
      [] n = "128x128.png"           -> 128
      [] n = "128x128@2x.png"        -> 256
      [] n = "icon.png"              -> 512
      [] n = "Square30x30Logo.png"   -> 30
      [] n = "Square44x44Logo.png"   -> 44
      [] n = "Square71x71Logo.png"   -> 71
      [] n = "Square89x89Logo.png"   -> 89
      [] n = "Square107x107Logo.png" -> 107
      [] n = "Square142x142Logo.png" -> 142
      [] n = "Square150x150Logo.png" -> 150
      [] n = "Square284x284Logo.png" -> 284
      [] n = "Square310x310Logo.png" -> 310
      [] OTHER                       -> 50

\* C5: every PNG file a run has written holds one raster of exactly
\* (s, s) pixels, s the target size of its filename, whatever the width and
\* height of the source.
C5_PngDimensions ==
    \A n \in Range(written) \cap (GenericPngs \cup TilePngs) :
        /\ disk[n].fmt = "PNG"
        /\ disk[n].dims = { << TargetSize(n), TargetSize(n) >> }

C5_Witness ==
    /\ RunEnded /\ result = "ok"
    /\ src.kind = "image" /\ src.w # src.h /\ src.h < 512
    /\ (GenericPngs \cup TilePngs) \subseteq Range(written)
    /\ disk["icon.png"].dims = { <<512, 512>> }

\* C6: the icon.ico a run has written embeds exactly the square sizes
\* 16, 32, 48, 64, 128 and 256, whatever the dimensions of the source.
C6_IcoSizes ==
    "icon.ico" \in Range(written)
        => disk["icon.ico"].dims =
              { <<16, 16>>, <<32, 32>>, <<48, 48>>, <<64, 64>>, <<128, 128>>, <<256, 256>> }

\* C7: a run that follows a run with the same source into the same directory
\* does not fail on what the earlier run left (it ends as the earlier run
\* did, unless a file operation fails), and leaves every file of the
\* directory with the content it had after the earlier run.
C7_Idempotent ==
    (RunEnded /\ runs >= 2 /\ prev.src = src /\ prev.result # "IOError" /\ result # "IOError")
        => /\ result = prev.result
           /\ disk = prev.disk

C7_Witness ==
    /\ RunEnded /\ runs >= 2 /\ prev.src = src
    /\ prev.result = "ok" /\ result = "ok"
    /\ Len(written) = 16
    /\ disk = prev.disk

\* C8: once a run is past the missing-source check and the directory step,
\* the output directory exists, and the file of the directory that is not an
\* output of the routine is as it was when the run started; a directory that
\* exists is never removed.
C8_DirectoryKept ==
    /\ dir0 => dirExists
    /\ disk[ForeignName] = disk0[ForeignName]
    /\ (runs > 0 /\ src.kind # "missing" /\ pc \notin {"check_source", "make_dir"})
          => dirExists

C8_Witness ==
    /\ RunEnded /\ result = "ok"
    /\ runs = 1 /\ ~dir0 /\ dirExists
    /\ disk[ForeignName] = Absent

\* the order in which a run writes its outputs
ExpectedOrder ==
    << "32x32.png", "128x128.png", "128x128@2x.png", "icon.png",
       "Square30x30Logo.png", "Square44x44Logo.png", "Square71x71Logo.png",
       "Square89x89Logo.png", "Square107x107Logo.png", "Square142x142Logo.png",
       "Square150x150Logo.png", "Square284x284Logo.png", "Square310x310Logo.png",
       "StoreLogo.png", "icon.ico", "icon.icns" >>

IsPrefix(p, q) == Len(p) <= Len(q) /\ \A i \in 1..Len(p) : p[i] = q[i]

C10_IcnsUntouched ==
    (runs > 0 /\ Undersized(src)) => disk["icon.icns"] = disk0["icon.icns"]

C10_Witness ==
    /\ RunEnded /\ result = "ok" /\ Undersized(src)
    /\ disk["icon.icns"].fmt = "ICNS"
    /\ disk["icon.icns"].src # src
    /\ \A n \in SixteenFiles \ {"icon.icns"} : Complete(disk[n]) /\ disk[n].src = src

====
